---- MODULE Spec2Model ----
(***************************************************************************)
(* Model of mandelbrot.py: the Mandelbrot class and the __main__ script    *)
(* that drives it (configure, zoom, calc_c, calc_z, calc_gradient,         *)
(* write_frame).                                                           *)
(*                                                                         *)
(* Numbers.  Python floats are modelled as exact rationals <<n, d>> in     *)
(* lowest terms with d > 0.  Every value the model reaches is a dyadic     *)
(* rational of small magnitude, which a double represents exactly, so the  *)
(* rational arithmetic coincides with the float arithmetic of the source   *)
(* on these inputs.                                                        *)
(*                                                                         *)
(* Arrays.  The numpy arrays c, z, niters and img are allocated once, in   *)
(* __init__, from the initial self.res (3000 x 2000).  They are modelled   *)
(* as functions over Cells, the index set of that allocation, reduced by   *)
(* PixelScale so that the arrays can be enumerated (3 x 2).                *)
(***************************************************************************)
EXTENDS Integers, Sequences, FiniteSets, TLC

VARIABLES pc, err, args, iterations, res, zoom, bounds, lengths, incr,
          c, z, niters, img, zstep, i, idx

vars == <<pc, err, args, iterations, res, zoom, bounds, lengths, incr,
          c, z, niters, img, zstep, i, idx>>

(***************************************************************************)
(* Bounds of the model                                                     *)
(***************************************************************************)
MaxIters == 3
MaxLevel == 1
MaxWidth == 4
PixelScale == 1000

(***************************************************************************)
(* Program constants                                                       *)
(***************************************************************************)
InitIterations == 200
InitResRe == 3000
InitResIm == 2000

\* an optional argument: None, or Some(v)
None == <<>>

Some(v) == <<v>>

(***************************************************************************)
(* Exact rational arithmetic standing for float arithmetic                 *)
(***************************************************************************)
Abs(n) == IF n < 0 THEN -n ELSE n

RECURSIVE GCD(_, _)
GCD(a, b) == IF b = 0 THEN a ELSE GCD(b, a % b)

Rat(n, d) ==
    LET g == GCD(Abs(n), Abs(d))
        s == IF d < 0 THEN -1 ELSE 1
    IN  <<(s * n) \div g, (s * d) \div g>>

R(n) == <<n, 1>>

RAdd(a, b) ==
    LET g == GCD(a[2], b[2])
        l == (a[2] \div g) * b[2]
    IN  Rat(a[1] * (l \div a[2]) + b[1] * (l \div b[2]), l)

RNeg(a) == <<-a[1], a[2]>>

RSub(a, b) == RAdd(a, RNeg(b))

RMul(a, b) ==
    LET g1 == GCD(Abs(a[1]), b[2])
        g2 == GCD(Abs(b[1]), a[2])
    IN  IF a[1] = 0 \/ b[1] = 0 THEN <<0, 1>>
        ELSE <<(a[1] \div g1) * (b[1] \div g2), (a[2] \div g2) * (b[2] \div g1)>>

\* a / b for b # 0 (the callers raise ZeroDivisionError on b = 0)
RDiv(a, b) == RMul(a, Rat(b[2], b[1]))

RAbs(a) == <<Abs(a[1]), a[2]>>

RLe(a, b) == a[1] * b[2] <= b[1] * a[2]

RLt(a, b) == a[1] * b[2] < b[1] * a[2]

\* Python int(x): truncation toward zero
RInt(a) == IF a[1] >= 0 THEN a[1] \div a[2] ELSE -((-a[1]) \div a[2])

Cx(re, im) == [re |-> re, im |-> im]

CZero == Cx(R(0), R(0))

CAdd(a, b) == Cx(RAdd(a.re, b.re), RAdd(a.im, b.im))

\* Python complex multiplication: (a+bi)(c+di) = (ac - bd) + (ad + bc)i
CMul(a, b) ==
    Cx(RSub(RMul(a.re, b.re), RMul(a.im, b.im)),
       RAdd(RMul(a.re, b.im), RMul(a.im, b.re)))

(***************************************************************************)
(* Mandelbrot.__init__                                                     *)
(***************************************************************************)
AllocRe == InitResRe \div PixelScale
AllocIm == InitResIm \div PixelScale

\* index set of the arrays np.zeros((res['im'], res['re'])): <<row, col>>
Cells == (0 .. AllocIm - 1) \X (0 .. AllocRe - 1)

\* bounds[axis] is the list [max, min]: index 1 here is index 0 there
DefaultBounds == [re |-> <<R(1), R(-2)>>, im |-> <<R(1), R(-1)>>]

DefaultLengths == [re |-> R(3), im |-> R(2)]

gconf ==
    << <<0, <<0, 0, 0>> >>,
       <<1, <<200, 255, 200>> >>,
       <<2, <<150, 200, 150>> >>,
       <<3, <<100, 150, 100>> >>,
       <<4, <<50, 100, 50>> >> >>

(***************************************************************************)
(* Command line (parse_args): the values a run is started with             *)
(***************************************************************************)
ZoomFactors == {-2, 0, 1, 2}

ZoomCenters == {<<0, 0>>, <<1, 1>>, <<2, 1>>}

Heights == {None, Some(1)}

ArgSpace ==
    [iters : 0 .. MaxIters,
     zoom_level : 0 .. MaxLevel,
     zoom_factor : ZoomFactors,
     zoom_center : ZoomCenters,
     re_res : 1 .. MaxWidth,
     im_res : Heights]

(***************************************************************************)
(* Methods of Mandelbrot, as functions of the fields they read             *)
(***************************************************************************)
\* a slip in brot: 2z + c for z*z + c
brot_doubling(zv, cv) == CAdd(CAdd(zv, zv), cv)

brot(zv, cv) == CAdd(CMul(zv, zv), cv)

\* int((2 * re) / 3): true division, then truncation
DefaultHeight(re_res) == RInt(RDiv(R(2 * re_res), R(3)))

set_resolution(re_res, im_res) ==
    [re |-> re_res,
     im |-> IF im_res = None THEN DefaultHeight(re_res) ELSE im_res[1]]

set_zoom(zm, level, factor, center) ==
    [level  |-> IF level # None THEN level[1] ELSE zm.level,
     factor |-> IF factor # None THEN factor[1] ELSE zm.factor,
     center |-> IF center # None THEN center[1] ELSE zm.center]

calc_lengths(b) ==
    [re |-> RAbs(RSub(b.re[1], b.re[2])),
     im |-> RAbs(RSub(b.im[1], b.im[2]))]

\* incr['re'] is assigned before incr['im'] is computed: a zero im resolution
\* raises after the re increment has been stored
calc_increments(len, rs, inc) ==
    IF rs.re = 0 THEN [ok |-> FALSE, incr |-> inc]
    ELSE IF rs.im = 0
         THEN [ok |-> FALSE, incr |-> [inc EXCEPT !.re = RDiv(len.re, R(rs.re))]]
         ELSE [ok |-> TRUE,
               incr |-> [re |-> RDiv(len.re, R(rs.re)),
                         im |-> RDiv(len.im, R(rs.im))]]

\* a slip in the zoom loop: one pass too many
ZoomLoopOneMore(step, level) == step <= level

\* for z in range(self.zoom['level'])
ZoomLoopContinues(step, level) == step < level

\* the bounds one pass of the zoom loop hands to set_bounds (factor # 0)
ZoomBounds(b, inc, rs, zm) ==
    LET ab == RDiv(R(rs.im), R(zm.factor))
        ad == RDiv(R(rs.re), R(zm.factor))
        half_ad == RDiv(ad, R(2))
        half_ab == RDiv(ab, R(2))
        re_min == RAdd(b.re[2], RMul(RSub(R(zm.center[1]), half_ad), inc.re))
        im_min == RAdd(b.im[2], RMul(RSub(R(zm.center[2]), half_ab), inc.im))
        re_max == RSub(b.re[1],
                       RMul(RSub(R(rs.re - zm.center[1]), half_ad), inc.re))
        im_max == RSub(b.im[1],
                       RMul(RSub(R(rs.im - zm.center[2]), half_ab), inc.im))
    IN  [re |-> <<re_max, re_min>>, im |-> <<im_max, im_min>>]

FrameCenter(rs) == <<RInt(RDiv(R(rs.re), R(2))), RInt(RDiv(R(rs.im), R(2)))>>

\* a slip in calc_c: the pixel index itself, not index + 1, scales the increment
cval_from_index(b, inc, x, y) ==
    Cx(RAdd(b.re[2], RMul(inc.re, R(x - 1))),
       RAdd(b.im[2], RMul(inc.im, R(y - 1))))

\* complex(bounds['re'][1] + incr['re'] * x, bounds['im'][1] + incr['im'] * y)
cval(b, inc, x, y) ==
    Cx(RAdd(b.re[2], RMul(inc.re, R(x))), RAdd(b.im[2], RMul(inc.im, R(y))))

\* the <<yidx, xidx>> the loops of calc_c visit, in row-major order
LoopCells(rs) == (0 .. rs.im - 1) \X (0 .. rs.re - 1)

RowMajorBefore(p, q) == p[1] < q[1] \/ (p[1] = q[1] /\ p[2] < q[2])

\* self.c[yidx][xidx] = cval raises IndexError at the first visited index
\* that lies outside the allocated array; the cells visited before it are set
CalcCWrites(rs) ==
    {p \in LoopCells(rs) : \A q \in LoopCells(rs) \ Cells : RowMajorBefore(p, q)}

CalcCRaises(rs) == LoopCells(rs) \ Cells # {}

\* a slip in the mask of calc_z: < for <=
ZActiveStrict(zv) == RLt(zv.re, R(2)) /\ RLt(zv.im, R(2))

\* np.logical_and(self.z.real <= 2.0, self.z.imag <= 2.0)
ZActive(zv) == RLe(zv.re, R(2)) /\ RLe(zv.im, R(2))

\* self.z.real >= niters, niters being the threshold of a gconf pair
LayerApplies(zv, threshold) == RLe(R(threshold), zv.re)

\* np.where of an array of the resolution's shape against arrays of the
\* allocated shape, stored into img: per axis the sizes agree or the
\* resolution's is 1
Broadcasts(rs) ==
    /\ rs.im >= 0 /\ rs.re >= 0
    /\ (rs.im = AllocIm \/ rs.im = 1)
    /\ (rs.re = AllocRe \/ rs.re = 1)

(***************************************************************************)
(* An uncaught exception ends the run: its type and the method raising it  *)
(***************************************************************************)
NoError == [exc |-> "", at |-> ""]

Raised(exc, at) == [exc |-> exc, at |-> at]

(***************************************************************************)
(* Initial state: m = Mandelbrot() has been constructed, args parsed       *)
(***************************************************************************)
Init ==
    /\ pc = "iterations"
    /\ err = NoError
    /\ args \in ArgSpace
    /\ iterations = InitIterations
    /\ res = [re |-> AllocRe, im |-> AllocIm]
    /\ zoom = [level |-> 0, factor |-> 2, center |-> <<0, 0>>]
    /\ bounds = DefaultBounds
    /\ lengths = DefaultLengths
    /\ incr = [re |-> Rat(1, 1000), im |-> Rat(1, 1000)]
    /\ c = [p \in Cells |-> CZero]
    /\ z = [p \in Cells |-> CZero]
    /\ niters = [p \in Cells |-> 0]
    /\ img = [p \in Cells |-> <<0, 0, 0>>]
    /\ zstep = 0
    /\ i = 0
    /\ idx = 0

(***************************************************************************)
(* __main__                                                                *)
(***************************************************************************)
\* m.iterations = args.iters
MainIterations ==
    /\ pc = "iterations"
    /\ iterations' = args.iters
    /\ pc' = "set_resolution"
    /\ UNCHANGED <<err, args, res, zoom, bounds, lengths, incr, c, z, niters,
                   img, zstep, i, idx>>

\* m.set_resolution(args.re_res): args.im_res is not passed
MainSetResolution ==
    /\ pc = "set_resolution"
    /\ res' = set_resolution(args.re_res, None)
    /\ pc' = "set_zoom"
    /\ UNCHANGED <<err, args, iterations, zoom, bounds, lengths, incr, c, z,
                   niters, img, zstep, i, idx>>

MainSetZoom ==
    /\ pc = "set_zoom"
    /\ zoom' = set_zoom(zoom, Some(args.zoom_level), Some(args.zoom_factor),
                         Some(args.zoom_center))
    /\ pc' = "calc_lengths"
    /\ UNCHANGED <<err, args, iterations, res, bounds, lengths, incr, c, z,
                   niters, img, zstep, i, idx>>

MainCalcLengths ==
    /\ pc = "calc_lengths"
    /\ lengths' = calc_lengths(bounds)
    /\ pc' = "calc_increments"
    /\ UNCHANGED <<err, args, iterations, res, zoom, bounds, incr, c, z,
                   niters, img, zstep, i, idx>>

MainCalcIncrements ==
    /\ pc = "calc_increments"
    /\ LET r == calc_increments(lengths, res, incr)
       IN  /\ incr' = r.incr
           /\ IF r.ok
              THEN pc' = "calc_zoom" /\ err' = err
              ELSE pc' = "error"
                   /\ err' = Raised("ZeroDivisionError", "calc_increments")
    /\ UNCHANGED <<args, iterations, res, zoom, bounds, lengths, c, z, niters,
                   img, zstep, i, idx>>

(***************************************************************************)
(* m.calc_zoom(): one pass of its loop, and the return from it             *)
(***************************************************************************)
CalcZoomStep ==
    /\ pc = "calc_zoom"
    /\ ZoomLoopContinues(zstep, zoom.level)
    /\ IF zoom.factor = 0
       THEN \* ab = self.res['im'] / self.zoom['factor']
            /\ pc' = "error"
            /\ err' = Raised("ZeroDivisionError", "calc_zoom")
            /\ UNCHANGED <<zoom, bounds, lengths, incr, zstep>>
       ELSE LET b == ZoomBounds(bounds, incr, res, zoom)
                len == calc_lengths(b)
                r == calc_increments(len, res, incr)
            IN  /\ bounds' = b
                /\ lengths' = len
                /\ incr' = r.incr
                /\ IF r.ok
                   THEN /\ zoom' = set_zoom(zoom, None, None, Some(FrameCenter(res)))
                        /\ zstep' = zstep + 1
                        /\ pc' = pc
                        /\ err' = err
                   ELSE /\ pc' = "error"
                        /\ err' = Raised("ZeroDivisionError", "calc_zoom")
                        /\ UNCHANGED <<zoom, zstep>>
    /\ UNCHANGED <<args, iterations, res, c, z, niters, img, i, idx>>

CalcZoomReturn ==
    /\ pc = "calc_zoom"
    /\ ~ZoomLoopContinues(zstep, zoom.level)
    /\ pc' = "calc_c"
    /\ UNCHANGED <<err, args, iterations, res, zoom, bounds, lengths, incr, c,
                   z, niters, img, zstep, i, idx>>

(***************************************************************************)
(* m.calc_c()                                                              *)
(***************************************************************************)
CalcC ==
    /\ pc = "calc_c"
    /\ c' = [p \in Cells |->
                IF p \in CalcCWrites(res)
                THEN cval(bounds, incr, p[2] + 1, p[1] + 1)
                ELSE c[p]]
    /\ IF CalcCRaises(res)
       THEN pc' = "error" /\ err' = Raised("IndexError", "calc_c")
       ELSE pc' = "calc_z" /\ err' = err
    /\ UNCHANGED <<args, iterations, res, zoom, bounds, lengths, incr, z,
                   niters, img, zstep, i, idx>>

(***************************************************************************)
(* m.calc_z(): one round of its loop over the whole arrays, and the return *)
(* i is the number of rounds completed, the next value of the loop index   *)
(***************************************************************************)
CalcZRound ==
    /\ pc = "calc_z"
    /\ i < iterations
    /\ z' = [p \in Cells |-> IF ZActive(z[p]) THEN brot(z[p], c[p]) ELSE z[p]]
    /\ niters' = [p \in Cells |-> niters[p] + 1]
    /\ i' = i + 1
    /\ UNCHANGED <<pc, err, args, iterations, res, zoom, bounds, lengths, incr,
                   c, img, zstep, idx>>

\* logger.info(..., i+1) reads the loop index, unbound when no round ran
CalcZReturn ==
    /\ pc = "calc_z"
    /\ ~(i < iterations)
    /\ IF i = 0
       THEN pc' = "error" /\ err' = Raised("UnboundLocalError", "calc_z")
       ELSE pc' = "calc_gradient" /\ err' = err
    /\ UNCHANGED <<args, iterations, res, zoom, bounds, lengths, incr, c, z,
                   niters, img, zstep, i, idx>>

(***************************************************************************)
(* m.calc_gradient(): one layer of gconf, and the return                   *)
(***************************************************************************)
CalcGradientLayer ==
    /\ pc = "calc_gradient"
    /\ idx < Len(gconf)
    /\ IF Broadcasts(res)
       THEN /\ img' = [p \in Cells |->
                          IF LayerApplies(z[p], gconf[idx + 1][1])
                          THEN gconf[idx + 1][2]
                          ELSE img[p]]
            /\ idx' = idx + 1
            /\ UNCHANGED <<pc, err>>
       ELSE /\ pc' = "error"
            /\ err' = Raised("ValueError", "calc_gradient")
            /\ UNCHANGED <<img, idx>>
    /\ UNCHANGED <<args, iterations, res, zoom, bounds, lengths, incr, c, z,
                   niters, zstep, i>>

CalcGradientReturn ==
    /\ pc = "calc_gradient"
    /\ ~(idx < Len(gconf))
    /\ pc' = "write_frame"
    /\ UNCHANGED <<err, args, iterations, res, zoom, bounds, lengths, incr, c,
                   z, niters, img, zstep, i, idx>>

(***************************************************************************)
(* m.write_frame(args.outfile): img goes to the image encoder              *)
(***************************************************************************)
WriteFrame ==
    /\ pc = "write_frame"
    /\ pc' = "done"
    /\ UNCHANGED <<err, args, iterations, res, zoom, bounds, lengths, incr, c,
                   z, niters, img, zstep, i, idx>>

Next ==
    \/ MainIterations
    \/ MainSetResolution
    \/ MainSetZoom
    \/ MainCalcLengths
    \/ MainCalcIncrements
    \/ CalcZoomStep
    \/ CalcZoomReturn
    \/ CalcC
    \/ CalcZRound
    \/ CalcZReturn
    \/ CalcGradientLayer
    \/ CalcGradientReturn
    \/ WriteFrame

Spec == Init /\ [][Next]_vars

(***************************************************************************)
(* Positions of the run                                                    *)
(***************************************************************************)
\* calc_zoom has returned
PostZoom ==
    \/ pc \in {"calc_c", "calc_z", "calc_gradient", "write_frame", "done"}
    \/ pc = "error" /\ err.at \in {"calc_c", "calc_z", "calc_gradient"}

\* calc_c has returned
PostCalcC ==
    \/ pc \in {"calc_z", "calc_gradient", "write_frame", "done"}
    \/ pc = "error" /\ err.at \in {"calc_z", "calc_gradient"}

\* the loop of calc_z has run all its rounds
PostCalcZ ==
    \/ pc \in {"calc_gradient", "write_frame", "done"}
    \/ pc = "error" /\ err.at = "calc_gradient"

\* set_resolution has returned
ResolutionSet == pc \notin {"iterations", "set_resolution"}

(***************************************************************************)
(* The per-pixel early-exit evaluator of the design (section 4.3):         *)
(* z = 0, count = 0; z <- z*z + c with (a+bi)^2 = a^2 - b^2 + 2abi,        *)
(* count += 1; after each update, Escaped{count} if z.re > 2.0 or          *)
(* z.im > 2.0; Bounded when count reaches max_iterations                   *)
(***************************************************************************)
EvalStep(zv, cv) ==
    Cx(RAdd(RSub(RMul(zv.re, zv.re), RMul(zv.im, zv.im)), cv.re),
       RAdd(RMul(R(2), RMul(zv.re, zv.im)), cv.im))

RECURSIVE EvalFrom(_, _, _, _)
EvalFrom(zv, cv, count, max) ==
    IF count >= max
    THEN [escaped |-> FALSE, iterations |-> count, z |-> zv]
    ELSE LET z1 == EvalStep(zv, cv)
         IN  IF RLt(R(2), z1.re) \/ RLt(R(2), z1.im)
             THEN [escaped |-> TRUE, iterations |-> count + 1, z |-> z1]
             ELSE EvalFrom(z1, cv, count + 1, max)

evaluate(cv, max) == EvalFrom(CZero, cv, 0, max)

(***************************************************************************)
(* Quantities the claims speak of, computed with the operators of the code *)
(***************************************************************************)
\* the 1-based index of the first update of z, among max updates, after
\* which z is outside the mask of calc_z; 0 when there is none
RECURSIVE EscapeIndexFrom(_, _, _, _)
EscapeIndexFrom(zv, cv, k, max) ==
    IF k > max THEN 0
    ELSE LET z1 == brot(zv, cv)
         IN  IF ~ZActive(z1) THEN k ELSE EscapeIndexFrom(z1, cv, k + 1, max)

EscapeIndex(cv, max) == EscapeIndexFrom(CZero, cv, 1, max)

\* z of a cell after n rounds of calc_z
RECURSIVE ZAfter(_, _)
ZAfter(cv, n) ==
    IF n <= 0 THEN CZero
    ELSE LET zp == ZAfter(cv, n - 1)
         IN  IF ZActive(zp) THEN brot(zp, cv) ELSE zp

\* the colour of the last pair of gconf, in order, whose threshold count reaches
RECURSIVE BandFrom(_, _, _)
BandFrom(count, k, colour) ==
    IF k > Len(gconf) THEN colour
    ELSE BandFrom(count, k + 1,
                  IF count >= gconf[k][1] THEN gconf[k][2] ELSE colour)

BandColour(count) == BandFrom(count, 1, <<0, 0, 0>>)

\* the colour calc_gradient leaves on a cell whose final z is zv
RECURSIVE LayersFrom(_, _, _)
LayersFrom(zv, k, colour) ==
    IF k > Len(gconf) THEN colour
    ELSE LayersFrom(zv, k + 1,
                    IF LayerApplies(zv, gconf[k][1]) THEN gconf[k][2] ELSE colour)

LayeredColour(zv) == LayersFrom(zv, 1, <<0, 0, 0>>)

COne == Cx(R(1), R(0))

(***************************************************************************)
(* Claims                                                                  *)
(***************************************************************************)

\* a run the design accepts: zooming is requested only with a positive factor
ValidZoom == args.zoom_level = 0 \/ args.zoom_factor > 0

\* C1: with max_iterations >= 1, once calc_z has finished every cell has
\* had at most max_iterations updates of z, and for every cell that escaped
\* the count recorded for it (niters) is the 1-based index of the update at
\* which it escaped, with 1 <= count <= max_iterations.
C1_RecordedCountIsEscapeIndex ==
    (ValidZoom /\ iterations >= 1 /\ PostCalcZ) =>
        \A p \in Cells :
            /\ niters[p] <= iterations
            /\ z[p] = ZAfter(c[p], iterations)
            /\ ~ZActive(z[p]) =>
                  /\ niters[p] = EscapeIndex(c[p], iterations)
                  /\ 1 <= niters[p]
                  /\ niters[p] <= iterations

\* C2: a cell whose c is 1+0i has z = 1 after the 1st update and z = 2 after
\* the 2nd, neither of them escaped under the test z.re > 2.0 or z.im > 2.0,
\* and z = 5, escaped, after the 3rd update and in every later round.
C2_OnePlusZeroEscapesAtThird ==
    \A p \in Cells :
        (PostCalcC /\ pc # "error" /\ c[p] = COne) =>
            LET escaped == RLt(R(2), z[p].re) \/ RLt(R(2), z[p].im)
            IN  /\ i = 0 => z[p] = CZero
                /\ i = 1 => z[p] = Cx(R(1), R(0)) /\ ~escaped
                /\ i = 2 => z[p] = Cx(R(2), R(0)) /\ ~escaped
                /\ i >= 3 => z[p] = Cx(R(5), R(0)) /\ escaped

C2_Witness ==
    /\ pc = "calc_gradient"
    /\ i >= 3
    /\ \E p \in Cells : c[p] = COne /\ z[p] = Cx(R(5), R(0))

\* C3: when the frame is complete, every escaped cell has the colour of the
\* last pair of gconf, in order, whose threshold its escape iteration count
\* reaches (count >= threshold).
C3_LastSatisfiedThresholdWins ==
    (ValidZoom /\ pc \in {"write_frame", "done"}) =>
        \A p \in Cells :
            ~ZActive(z[p]) => img[p] = BandColour(EscapeIndex(c[p], iterations))

\* C4: once a resolution of positive width and height is configured the
\* frame buffer has exactly height rows and width columns, and when it is
\* handed to the encoder every cell of it holds the colour computed from that
\* cell's own coordinate.
C4_FrameBufferHasResolution ==
    (ValidZoom /\ ResolutionSet /\ res.re >= 1 /\ res.im >= 1) =>
        /\ DOMAIN img = LoopCells(res)
        /\ pc \in {"write_frame", "done"} =>
              \A p \in LoopCells(res) :
                  img[p] = LayeredColour(
                               ZAfter(cval(bounds, incr, p[2] + 1, p[1] + 1),
                                      iterations))

\* C5: after calc_c, the cell of every pixel (col, row) of the resolution
\* holds re_min + re_increment * (col + 1), im_min + im_increment * (row + 1)
\* under the viewport left by the zoom; a cell calc_c did not reach is 0.
C5_PixelCoordinate ==
    /\ PostCalcC =>
          \A row \in 0 .. res.im - 1, col \in 0 .. res.re - 1 :
              /\ <<row, col>> \in Cells
              /\ c[<<row, col>>].re =
                    RAdd(bounds.re[2], RMul(incr.re, R(col + 1)))
              /\ c[<<row, col>>].im =
                    RAdd(bounds.im[2], RMul(incr.im, R(row + 1)))
    /\ \A p \in Cells :
          \/ c[p] = CZero
          \/ /\ p \in LoopCells(res)
             /\ c[p] = Cx(RAdd(bounds.re[2], RMul(incr.re, R(p[2] + 1))),
                          RAdd(bounds.im[2], RMul(incr.im, R(p[1] + 1))))

C5_Witness ==
    /\ PostCalcC
    /\ args.zoom_level >= 1
    /\ <<0, 0>> \in LoopCells(res)
    /\ c[<<0, 0>>] = Cx(RAdd(bounds.re[2], incr.re), RAdd(bounds.im[2], incr.im))
    /\ c[<<0, 0>>] # Cx(bounds.re[2], bounds.im[2])
    /\ bounds # DefaultBounds

\* C6: in every state of the run re_max > re_min, im_max > im_min and both
\* increments are strictly positive.
C6_ViewportOrdered ==
    /\ RLt(bounds.re[2], bounds.re[1])
    /\ RLt(bounds.im[2], bounds.im[1])
    /\ RLt(R(0), incr.re)
    /\ RLt(R(0), incr.im)

\* C7: with zoom_level = 0, whatever the zoom factor and centre, calc_zoom
\* raises nothing and leaves the default viewport: bounds re in [-2, 1] and
\* im in [-1, 1], lengths 3 and 2, increments 3/width and 2/height.
C7_ZoomLevelZeroChangesNothing ==
    args.zoom_level = 0 =>
        /\ bounds = DefaultBounds
        /\ ~(pc = "error" /\ err.at = "calc_zoom")
        /\ PostZoom =>
              /\ lengths = [re |-> R(3), im |-> R(2)]
              /\ incr = [re |-> Rat(3, res.re), im |-> Rat(2, res.im)]
              /\ zstep = 0

C7_Witness ==
    /\ pc = "calc_c"
    /\ args.zoom_level = 0
    /\ args.zoom_factor = 0
    /\ args.zoom_center # <<0, 0>>
    /\ zoom.factor = 0
    /\ zoom.center = args.zoom_center

\* C8: a run started with zoom_level > 0 and a zero or negative zoom factor
\* never modifies the viewport and never gets past calc_zoom: no pixel is
\* evaluated and no frame is written.
C8_BadFactorRejected ==
    (args.zoom_level > 0 /\ args.zoom_factor <= 0) =>
        /\ bounds = DefaultBounds
        /\ ~PostZoom
        /\ zstep = 0

\* C9: the vertical resolution of the run is the configured height when one
\* is supplied and floor((2 * width) / 3) when none is; width 3000 without a
\* height gives 2000.
C9_HeightAsConfigured ==
    /\ DefaultHeight(3000) = 2000
    /\ ResolutionSet =>
          res.im = IF args.im_res = None
                   THEN (2 * args.re_res) \div 3
                   ELSE args.im_res[1]

\* C10: in every round of calc_z every cell agrees with the per-pixel
\* early-exit evaluator: its z is the evaluator's z for a budget of the
\* rounds run so far, it is outside the mask exactly when the evaluator, with
\* the whole budget, escapes at an iteration no later than this round, and
\* after the last round its z is the evaluator's final z.
C10_MaskedRoundsMatchEvaluator ==
    (PostCalcC /\ pc # "error") =>
        \A p \in Cells :
            LET whole == evaluate(c[p], iterations)
                sofar == evaluate(c[p], i)
            IN  /\ z[p] = sofar.z
                /\ ~ZActive(z[p]) <=> sofar.escaped
                /\ ~ZActive(z[p]) <=> (whole.escaped /\ whole.iterations <= i)
                /\ PostCalcZ => z[p] = whole.z /\ i = iterations

C10_Witness ==
    /\ pc = "calc_gradient"
    /\ \E p, q \in Cells :
          /\ evaluate(c[p], iterations).escaped
          /\ evaluate(c[p], iterations).iterations < iterations
          /\ z[p] = evaluate(c[p], iterations).z
          /\ ~evaluate(c[q], iterations).escaped
          /\ c[q] # CZero

====
